---- MODULE Spec2Model ----
(***************************************************************************)
(* A model of InstanceResolver (src/unnamed/part_000): the schema-driven,  *)
(* policy-gated resolver that mediates get, list, create, update, destroy, *)
(* getTasks and completeTask on the instances of one entity type, with its *)
(* collaborators (storage, identity service, policy evaluator, workflow    *)
(* engine) reduced to the interface the resolver uses.                     *)
(*                                                                         *)
(* JavaScript values are written as strings: "undefined" and "null" are    *)
(* the two absent values, "0", "false" and "" are the falsy number,        *)
(* boolean and string, every other string is a truthy value. An object is  *)
(* a function from a fixed key set to values, a key holding "undefined"    *)
(* being a key the object does not have. An optional array (allowedFields, *)
(* allowedRestrictions, allowedTasks, restrictedFields) is a set, or       *)
(* Absent when the property is missing.                                    *)
(***************************************************************************)
EXTENDS Integers, Sequences, FiniteSets, TLC

\* ------------------------------------------------------------------ bounds

\* The number of resolver operations one behaviour performs.
MaxOps == 2

\* ------------------------------------------------------------- JS values

Undef == "undefined"
Null == "null"
Zero == "0"
False == "false"
True == "true"
EmptyString == ""

\* The values JavaScript treats as false in a condition.
Falsy == {Undef, Null, Zero, False, EmptyString}

truthy(v) == v \notin Falsy

\* A missing (null/undefined) array-valued property.
Absent == {"<absent>"}

\* ------------------------------------------------------------- AclActions

AclAccess == "access"
AclWrite == "write"
AclRead == "read"
AclCreate == "create"
AclDestroy == "destroy"
AclTask == "task"

AdditionalAllowedGetFields == {"id", "created", "updated", "tasks", "restrictedFields"}

\* ---------------------------------------------------------- model schema

BaseElement ==
    [field |-> Undef, input |-> Undef, joinField |-> Undef,
     isOwnerField |-> FALSE, isStateField |-> FALSE,
     listingFilterable |-> FALSE, listingFilterMultiple |-> FALSE,
     defaultValue |-> Undef, defaultEnum |-> Undef, defaultEnumKey |-> Undef]

TitleElement == [BaseElement EXCEPT !.field = "title", !.listingFilterable = TRUE]
SecretElement == [BaseElement EXCEPT !.field = "secret", !.input = False]
StatusElement ==
    [BaseElement EXCEPT !.field = "status", !.isStateField = TRUE, !.defaultValue = "draft"]
CountElement == [BaseElement EXCEPT !.field = "count", !.defaultValue = Zero]
PhaseElement ==
    [BaseElement EXCEPT !.field = "phase", !.defaultEnum = "Phase", !.defaultEnumKey = "Initial"]
SubmitterElement ==
    [BaseElement EXCEPT !.field = "submitter", !.isOwnerField = TRUE, !.joinField = "submitterId"]
HeadingElement == BaseElement

CommonElements ==
    <<TitleElement, SecretElement, StatusElement, CountElement, PhaseElement, HeadingElement>>

\* Three entity types: one with an owner field, one without, and one that
\* is not input-enabled.
OwnedModelDef == [name |-> "owned", input |-> True, elements |-> CommonElements \o <<SubmitterElement>>]
UnownedModelDef == [name |-> "unowned", input |-> True, elements |-> CommonElements]
ReadOnlyModelDef == [name |-> "readonly", input |-> Undef, elements |-> CommonElements \o <<SubmitterElement>>]

ModelDefs == {OwnedModelDef, UnownedModelDef, ReadOnlyModelDef}

\* The process-wide enum table.
Enums == [Phase |-> [Initial |-> "pending"]]

\* taskDef.options.processKey
ProcessKey == "submission"

\* ------------------------------------------------------------ objects

\* The keys an instance can hold.
InstanceKeys ==
    {"id", "created", "updated", "title", "secret", "status", "count", "phase", "submitterId"}

\* The keys a returned object can hold besides restrictedFields.
ResultKeys == InstanceKeys \cup {"tasks", "submitter"}

NullObject == [k \in InstanceKeys |-> Undef]

isNull(object) == object = NullObject

EmptyResult == [props |-> [k \in ResultKeys |-> Undef], restrictedFields |-> Absent]

\* The keys of a returned object.
ResultKeysOf(r) ==
    {k \in ResultKeys : r.props[k] # Undef}
        \cup (IF r.restrictedFields # Absent THEN {"restrictedFields"} ELSE {})

SeqToSet(s) == {s[i] : i \in 1..Len(s)}

\* ------------------------------------------------ field classification

filterModelElementsForOwnerFields(elements) ==
    {e \in SeqToSet(elements) : e.isOwnerField /\ truthy(e.joinField)}

filterModelElementsForStates(elements) ==
    {e \in SeqToSet(elements) : e.isStateField /\ truthy(e.field)}

filterModelElementsForListingFilters(elements) ==
    {e \in SeqToSet(elements) : e.listingFilterable /\ truthy(e.field)}

_allowedReadFieldKeysForInstance(model) ==
    {e.field : e \in {x \in SeqToSet(model.elements) : truthy(x.field)}}

_allowedInputKeysForInstanceInput(model) ==
    {e.field : e \in {x \in SeqToSet(model.elements) : truthy(x.field) /\ x.input # False}}

\* ------------------------------------------------------- policy matches

Match(allow, fields, restrictions, tasks) ==
    [allow |-> allow, allowedFields |-> fields,
     allowedRestrictions |-> restrictions, allowedTasks |-> tasks]

DenyMatch == Match(FALSE, Absent, Absent, Absent)

\* What acl.applyRules can answer for each action.
AccessMatches ==
    {DenyMatch} \cup {Match(TRUE, Absent, r, Absent) : r \in {Absent, {}, {"owner"}, {"all"}}}

ReadMatches ==
    {DenyMatch} \cup {Match(TRUE, f, Absent, Absent) : f \in {Absent, {"title", "submitterId"}}}

WriteMatches ==
    {DenyMatch, Match(TRUE, Absent, {"owner"}, Absent)}
        \cup {Match(TRUE, f, Absent, Absent) : f \in {Absent, {"title", "secret"}}}

CreateMatches == {DenyMatch, Match(TRUE, Absent, Absent, Absent)}

DestroyMatches == {DenyMatch, Match(TRUE, Absent, Absent, Absent)}

TaskMatches ==
    {DenyMatch} \cup {Match(TRUE, Absent, Absent, t) : t \in {Absent, {"review"}, {"submit"}}}

\* One evaluation of the policy: the action, whether an instance was
\* passed, the targets and the match returned.
Evaluation(action, targets, object, match) ==
    [action |-> action, targets |-> targets, withInstance |-> ~isNull(object), match |-> match]

\* ------------------------------------------------------------ identities

\* Identity.find: the request's user reference to the identity id.
IdentityFind(ref) ==
    CASE ref = "ref-ann" -> "ann"
      [] ref = "ref-bob" -> "bob"
      [] OTHER -> Null

\* The user references a request can carry (undefined: not signed in;
\* ref-gone: a reference the identity service holds no identity for).
UserRefs == {Undef, "ref-ann", "ref-gone"}

\* ------------------------------------------------------- pure functions

\* The restriction rule without the ownership test.
_restrictionsApplyToUser_NoOwnerCheck(restrictions, isOwner) ==
    IF restrictions = Absent \/ restrictions = {} THEN TRUE
    ELSE IF "all" \in restrictions THEN TRUE
    ELSE "owner" \in restrictions

_restrictionsApplyToUser(restrictions, isOwner) ==
    IF restrictions = Absent \/ restrictions = {} THEN TRUE
    ELSE IF "all" \in restrictions THEN TRUE
    ELSE isOwner /\ "owner" \in restrictions

\* userToAclTargets(user, object)[1], with user the identity id or Null.
isOwnerOf(def, user, object) ==
    /\ truthy(user)
    /\ ~isNull(object)
    /\ \E f \in filterModelElementsForOwnerFields(def.elements) : object[f.joinField] = user

userToAclTargets(def, user, object) ==
    {"anonymous"}
        \cup (IF truthy(user) THEN {"administrator"} ELSE {})
        \cup (IF truthy(user) /\ ~isNull(object) THEN {"user"} ELSE {})
        \cup (IF isOwnerOf(def, user, object) THEN {"owner"} ELSE {})

\* The read fields with the match's allowedFields not applied.
getAllowedReadFields_IgnoresPolicy(def, readAcl, includeAdditionalFields) ==
    _allowedReadFieldKeysForInstance(def)
        \cup (IF includeAdditionalFields THEN AdditionalAllowedGetFields ELSE {})

\* The read fields with the match's allowedFields added to the ceiling
\* instead of picked from it.
getAllowedReadFields_PolicyWidens(def, readAcl, includeAdditionalFields) ==
    (IF readAcl.allowedFields # Absent
        THEN _allowedReadFieldKeysForInstance(def) \cup readAcl.allowedFields
        ELSE _allowedReadFieldKeysForInstance(def))
        \cup (IF includeAdditionalFields THEN AdditionalAllowedGetFields ELSE {})

getAllowedReadFields(def, readAcl, includeAdditionalFields) ==
    (IF readAcl.allowedFields # Absent
        THEN _allowedReadFieldKeysForInstance(def) \cap readAcl.allowedFields
        ELSE _allowedReadFieldKeysForInstance(def))
        \cup (IF includeAdditionalFields THEN AdditionalAllowedGetFields ELSE {})

\* _getInstance with the read match the policy returned (hasAcl: this.acl).
_getInstance(def, hasAcl, instance, readMatch, topLevelFields) ==
    IF hasAcl /\ ~readMatch.allow
    THEN [props |-> [k \in ResultKeys |-> IF k = "id" THEN instance["id"] ELSE Undef],
          restrictedFields |-> topLevelFields \ {"id"}]
    ELSE LET allowedFields ==
                 getAllowedReadFields(def, IF hasAcl THEN readMatch ELSE DenyMatch, TRUE)
             restricted == topLevelFields \ allowedFields
         IN [props |-> [k \in ResultKeys |->
                          IF k = "id" THEN instance["id"]
                          ELSE IF k \in topLevelFields \cap allowedFields /\ k \in InstanceKeys
                               THEN instance[k]
                               ELSE Undef],
             restrictedFields |-> IF restricted = {} THEN Absent ELSE restricted]

\* ------------------------------------------------------------------ state

VARIABLES
    modelDef,   \* the entity type's schema (taskDefinition.model), fixed at construction
    acl,        \* whether modelClass.acl is set
    storage,    \* the persisted instances, in creation order
    engine,     \* the workflow engine: its process instances and pending tasks
    context,    \* the current request's context: user, resolvedUser, instanceLookup
    loads,      \* the storage finds of resolveInstanceUsingContext still in flight
    last,       \* the last operation: its inputs, what it evaluated, did and answered
    ops         \* the number of operations performed

vars == <<modelDef, acl, storage, engine, context, loads, last, ops>>

\* The ids storage hands out, in order.
IdNames == <<"i1", "i2", "i3", "i4", "i5", "i6">>

Ids == SeqToSet(IdNames)

Now == "now"

\* modelClass.find(id)
find(id) ==
    IF \E n \in 1..Len(storage) : storage[n]["id"] = id
    THEN storage[CHOOSE n \in 1..Len(storage) : storage[n]["id"] = id]
    ELSE NullObject

\* The ids a caller can name: every stored one and one that storage lacks.
KnownIds == {IdNames[n] : n \in 1..(Len(storage) + 1)}

\* instance.save(): an instance without id is inserted under the next id,
\* one with an id replaces the stored row.
save(store, instance) ==
    IF instance["id"] = Undef
    THEN Append(store, [instance EXCEPT !["id"] = IdNames[Len(store) + 1]])
    ELSE [n \in 1..Len(store) |->
            IF store[n]["id"] = instance["id"] THEN instance ELSE store[n]]

\* A request context as the request layer hands it over. lookupLoad tells
\* the cached objects apart: modelClass.find answers a new object on every
\* call, and lookupLoad[i] is the number of the call whose find produced the
\* object cached under i (0: none).
FreshContext(ref) ==
    [user |-> ref, resolvedUser |-> Undef, instanceLookup |-> [i \in Ids |-> NullObject],
     lookupLoad |-> [i \in Ids |-> 0], identityFinds |-> 0]

\* resolveUserForContext: the identity id the operation sees (Null: none).
resolveUserForContext(ctx) ==
    IF ~truthy(ctx.user) THEN Null
    ELSE IF truthy(ctx.resolvedUser) THEN ctx.resolvedUser
    ELSE IdentityFind(ctx.user)

\* The context after resolveUserForContext; identityFinds counts the calls
\* of Identity.find made for the request.
contextAfterResolve(ctx) ==
    IF truthy(ctx.user) /\ ~truthy(ctx.resolvedUser)
    THEN [ctx EXCEPT !.resolvedUser = IdentityFind(ctx.user),
                     !.identityFinds = ctx.identityFinds + 1]
    ELSE ctx

\* addInstancesToContext(instances, context), instances a set of objects
\* that the find or query numbered load produced
addInstancesToContext(instances, ctx, load) ==
    [ctx EXCEPT !.instanceLookup =
        [i \in Ids |->
            IF \E o \in instances : truthy(o["id"]) /\ o["id"] = i
            THEN CHOOSE o \in instances : o["id"] = i
            ELSE ctx.instanceLookup[i]],
                !.lookupLoad =
        [i \in Ids |->
            IF \E o \in instances : truthy(o["id"]) /\ o["id"] = i
            THEN load
            ELSE ctx.lookupLoad[i]]]

\* ---------------------------------------------------------------- outcomes

Returned(value) == [kind |-> "return", error |-> "none", value |-> value, fields |-> {}]

\* A returned (not thrown) error object.
ReturnedError(name) == [kind |-> "return", error |-> name, value |-> "error", fields |-> {}]

Thrown(name) == [kind |-> "throw", error |-> name, value |-> Undef, fields |-> {}]

ThrownNaming(name, fields) == [kind |-> "throw", error |-> name, value |-> Undef, fields |-> fields]

NoMap == [k \in InstanceKeys |-> Undef]

\* What is remembered of the operation before the last one: a destroy's id
\* and answer.
NoPrev == [op |-> "other", id |-> Undef, outcome |-> Returned(Undef)]

PrevOf(l) ==
    IF l.op = "destroy" THEN [op |-> l.op, id |-> l.id, outcome |-> l.outcome] ELSE NoPrev

NoEngine == [processInstances |-> {}, tasks |-> {}]

NoLast ==
    [op |-> "none", id |-> Undef, taskId |-> Undef, user |-> Null,
     topLevelFields |-> {}, input |-> NoMap, state |-> NoMap, filter |-> NoMap,
     evaluated |-> <<>>, outcome |-> Returned(Undef),
     result |-> EmptyResult, rows |-> <<>>, tasks |-> {},
     effects |-> <<>>, loaded |-> NullObject, object |-> NullObject,
     before |-> <<>>, engineBefore |-> NoEngine, cacheBefore |-> [i \in Ids |-> 0],
     variables |-> NoMap, eager |-> FALSE, failing |-> "none", prev |-> NoPrev]

\* The resolver is idle: no operation is running and the last one is answered.
Idle == last.op \in {"none", "idle"}

\* An operation can start.
Ready == Idle /\ ops < MaxOps

\* The record of an operation that starts now.
Answer(op) ==
    [NoLast EXCEPT !.op = op, !.prev = last.prev, !.before = storage,
                   !.engineBefore = engine, !.cacheBefore = context.lookupLoad]

\* The policy answers only the evaluations an operation makes: the matches
\* to draw for an action, given the run up to the point where it is asked.
Asked(run, action, matches) ==
    IF \E n \in 1..Len(run.evaluated) : run.evaluated[n].action = action
    THEN matches ELSE {DenyMatch}

\* The engine calls of a run that can fail.
Failing(run) == {"none"} \cup (SeqToSet(run.effects) \ {"save"})

\* --------------------------------------------------------------------- get

\* The field selections a query can make (GraphQLFields' top-level keys).
TopLevelFieldSets ==
    {{"id"}, {"id", "title", "secret"}, {"created", "title", "submitterId", "tasks"}}

\* get after the loads: what it evaluates, and its outcome and result.
getRun(def, hasAcl, object, user, topLevelFields, accessMatch, readMatch) ==
    LET targets == userToAclTargets(def, user, object)
        isOwner == isOwnerOf(def, user, object)
        access == <<Evaluation(AclAccess, targets, object, accessMatch)>>
        read == <<Evaluation(AclRead, targets, object, readMatch)>>
    IN  IF isNull(object)
        THEN [outcome |-> ReturnedError("NotFoundError"), evaluated |-> <<>>,
              result |-> EmptyResult, registered |-> FALSE]
        ELSE IF hasAcl /\ ~accessMatch.allow
        THEN [outcome |-> Thrown("AuthorizationError"), evaluated |-> access,
              result |-> EmptyResult, registered |-> TRUE]
        ELSE IF hasAcl /\ ~_restrictionsApplyToUser(accessMatch.allowedRestrictions, isOwner)
        THEN [outcome |-> Thrown("AuthorizationError"), evaluated |-> access,
              result |-> EmptyResult, registered |-> TRUE]
        ELSE [outcome |-> Returned("object"),
              evaluated |-> IF hasAcl THEN access \o read ELSE <<>>,
              result |-> _getInstance(def, hasAcl, object, readMatch, topLevelFields),
              registered |-> TRUE]

get(id, topLevelFields) ==
    /\ Ready
    /\ LET object == find(id)
           user == resolveUserForContext(context)
           try(a, r) == getRun(modelDef, acl, object, user, topLevelFields, a, r)
       IN  \E accessMatch \in Asked(try(DenyMatch, DenyMatch), AclAccess, AccessMatches) :
           \E readMatch \in Asked(try(accessMatch, DenyMatch), AclRead, ReadMatches) :
             LET run == try(accessMatch, readMatch)
             IN  /\ context' = IF run.registered
                               THEN addInstancesToContext({object}, contextAfterResolve(context), ops + 1)
                               ELSE contextAfterResolve(context)
                 /\ last' = [Answer("get") EXCEPT !.id = id, !.user = user,
                                !.topLevelFields = topLevelFields,
                                !.evaluated = run.evaluated, !.outcome = run.outcome,
                                !.result = run.result, !.loaded = object, !.object = object]
    /\ ops' = ops + 1
    /\ UNCHANGED <<modelDef, acl, storage, engine, loads>>

\* -------------------------------------------------------------------- list

\* The filter maps a caller can send: none, one naming a filterable field
\* (title) and a field that is not declared filterable (status), and one
\* asking for the empty title.
ListFilters ==
    {NoMap, [NoMap EXCEPT !["title"] = "y", !["status"] = "done"],
     [NoMap EXCEPT !["title"] = EmptyString]}

\* The where clauses built from the filter map: a single-valued filter is
\* an equality; a multi-valued one applies to arrays only, and the filter
\* values here are scalars.
matchesFilters(def, filter, row) ==
    \A f \in filterModelElementsForListingFilters(def.elements) :
        (truthy(filter[f.field]) /\ ~f.listingFilterMultiple) => row[f.field] = filter[f.field]

\* The owner constraint: the caller's id in some owner join field. Without
\* owner fields no clause is added.
matchesOwner(def, user, row) ==
    LET ownerFields == filterModelElementsForOwnerFields(def.elements)
    IN  ownerFields # {} => \E f \in ownerFields : row[f.joinField] = user

RECURSIVE SelectRows(_, _, _, _, _)
\* The stored rows the query returns, in storage order.
SelectRows(def, store, filter, owner, n) ==
    IF n > Len(store) THEN <<>>
    ELSE (IF matchesFilters(def, filter, store[n])
             /\ (owner # Null => matchesOwner(def, owner, store[n]))
          THEN <<store[n]>> ELSE <<>>)
         \o SelectRows(def, store, filter, owner, n + 1)

\* list after the identity is resolved. readOwner and readOther are the
\* read matches of the rows the caller owns and of the others.
listRun(def, hasAcl, store, user, filter, topLevelFields, accessMatch, readOwner, readOther) ==
    LET targets == userToAclTargets(def, user, NullObject)
        access == IF hasAcl THEN <<Evaluation(AclAccess, targets, NullObject, accessMatch)>>
                  ELSE <<>>
        allowedRestrictions == IF hasAcl THEN accessMatch.allowedRestrictions ELSE {"all"}
        restricted == "all" \notin allowedRestrictions
        r == SelectRows(def, store, filter, IF restricted THEN user ELSE Null, 1)
        readOf(object) == IF isOwnerOf(def, user, object) THEN readOwner ELSE readOther
        stop(outcome) ==
            [outcome |-> outcome, evaluated |-> access, found |-> <<>>, rows |-> <<>>]
    IN  IF hasAcl /\ ~accessMatch.allow
        THEN stop(Thrown("AuthorizationError"))
        ELSE IF allowedRestrictions = Absent
        THEN \* allowedRestrictions.indexOf on undefined
             stop(Thrown("TypeError"))
        ELSE IF restricted /\ ~truthy(user)
        THEN stop(Thrown("AuthorizationError"))
        ELSE [outcome |-> Returned("list"),
              evaluated |-> access \o
                  (IF hasAcl
                   THEN [n \in 1..Len(r) |->
                           Evaluation(AclRead, userToAclTargets(def, user, r[n]), r[n],
                                      readOf(r[n]))]
                   ELSE <<>>),
              found |-> r,
              rows |-> [n \in 1..Len(r) |->
                          _getInstance(def, hasAcl, r[n], readOf(r[n]), topLevelFields)]]

list(filter, topLevelFields) ==
    /\ Ready
    /\ LET user == resolveUserForContext(context)
           try(a, ro, rn) ==
               listRun(modelDef, acl, storage, user, filter, topLevelFields, a, ro, rn)
           owned(run) == {n \in 1..Len(run.found) : isOwnerOf(modelDef, user, run.found[n])}
       IN  \E accessMatch \in Asked(try(DenyMatch, DenyMatch, DenyMatch), AclAccess, AccessMatches) :
           LET probe == try(accessMatch, DenyMatch, DenyMatch)
           IN  \E readOwner \in (IF acl /\ owned(probe) # {} THEN ReadMatches ELSE {DenyMatch}) :
               \E readOther \in (IF acl /\ owned(probe) # DOMAIN probe.found
                                 THEN ReadMatches ELSE {DenyMatch}) :
                 LET run == try(accessMatch, readOwner, readOther)
                 IN  /\ context' = addInstancesToContext(SeqToSet(run.found),
                                                         contextAfterResolve(context), ops + 1)
                     /\ last' = [Answer("list") EXCEPT !.user = user, !.filter = filter,
                                    !.topLevelFields = topLevelFields,
                                    !.evaluated = run.evaluated, !.outcome = run.outcome,
                                    !.rows = run.rows]
    /\ ops' = ops + 1
    /\ UNCHANGED <<modelDef, acl, storage, engine, loads>>

\* ------------------------------------------------------------------ update

Input(title, secret, status) ==
    [NoMap EXCEPT !["title"] = title, !["secret"] = secret, !["status"] = status]

\* The fields a caller can send with an update besides the id.
UpdateInputs ==
    {NoMap, Input("y", Undef, Undef), Input("x", Undef, Undef),
     Input("y", "t", Undef), Input("y", Undef, "done")}

KeysOf(map) == {k \in DOMAIN map : map[k] # Undef}

\* delete input.id
withoutId(input) == [input EXCEPT !["id"] = Undef]

\* The fields update may write: the input ceiling narrowed by the write match.
allowedUpdateFields(def, hasAcl, writeMatch) ==
    IF hasAcl /\ writeMatch.allowedFields # Absent
    THEN _allowedInputKeysForInstanceInput(def) \cap writeMatch.allowedFields
    ELSE _allowedInputKeysForInstanceInput(def)

\* The partition with the allowed keys saved although others were refused.
updateApply_PartialSave(object, input, allowedFields) ==
    LET allowedKeys == KeysOf(input) \cap allowedFields
        restrictedFields == KeysOf(input) \ allowedFields
        applied == [k \in InstanceKeys |-> IF k \in allowedKeys THEN input[k] ELSE object[k]]
    IN  IF isNull(object)
        THEN [outcome |-> Thrown("TypeError"), object |-> object, save |-> FALSE]
        ELSE IF restrictedFields # {}
        THEN [outcome |-> ThrownNaming("AuthorizationError", restrictedFields),
              object |-> applied, save |-> TRUE]
        ELSE [outcome |-> Returned(True), object |-> applied, save |-> TRUE]

\* The partition of the input keys and the save (the id key is gone): the
\* allowed keys are assigned on the loaded object one by one, the others are
\* collected, and the object is saved when none was collected.
updateApply(object, input, allowedFields) ==
    LET allowedKeys == KeysOf(input) \cap allowedFields
        restrictedFields == KeysOf(input) \ allowedFields
        applied == [k \in InstanceKeys |-> IF k \in allowedKeys THEN input[k] ELSE object[k]]
    IN  IF isNull(object) /\ allowedKeys # {}
        THEN \* object[key] = ... on null
             [outcome |-> Thrown("TypeError"), object |-> object, save |-> FALSE]
        ELSE IF restrictedFields # {}
        THEN [outcome |-> ThrownNaming("AuthorizationError", restrictedFields),
              object |-> applied, save |-> FALSE]
        ELSE IF isNull(object)
        THEN \* object.save() on null
             [outcome |-> Thrown("TypeError"), object |-> object, save |-> FALSE]
        ELSE [outcome |-> Returned(True), object |-> applied, save |-> TRUE]

\* update after the loads: what it evaluates, the loaded object as it leaves
\* it, whether object.save() is issued, and its outcome.
updateRun(def, hasAcl, object, user, input, accessMatch, writeMatch) ==
    LET targets == userToAclTargets(def, user, object)
        isOwner == isOwnerOf(def, user, object)
        access == <<Evaluation(AclAccess, targets, object, accessMatch)>>
        write == <<Evaluation(AclWrite, targets, object, writeMatch)>>
        evaluatedAll == IF hasAcl THEN access \o write ELSE <<>>
        apply == updateApply(object, withoutId(input),
                             allowedUpdateFields(def, hasAcl, writeMatch))
    IN  IF hasAcl /\ ~accessMatch.allow
        THEN [outcome |-> Thrown("AuthorizationError"), evaluated |-> access,
              object |-> object, save |-> FALSE]
        ELSE IF hasAcl /\ ~_restrictionsApplyToUser(accessMatch.allowedRestrictions, isOwner)
        THEN [outcome |-> Thrown("AuthorizationError"), evaluated |-> access,
              object |-> object, save |-> FALSE]
        ELSE IF hasAcl /\ ~writeMatch.allow
        THEN [outcome |-> Thrown("AuthorizationError"), evaluated |-> evaluatedAll,
              object |-> object, save |-> FALSE]
        ELSE [outcome |-> apply.outcome, evaluated |-> evaluatedAll,
              object |-> apply.object, save |-> apply.save]

update(id, input) ==
    /\ Ready
    /\ IF modelDef.input # True
       THEN /\ last' = [Answer("update") EXCEPT !.id = id, !.input = input,
                           !.outcome = Thrown("Error")]
            /\ UNCHANGED <<storage, context>>
       ELSE LET sent == [input EXCEPT !["id"] = id]
                object == find(sent["id"])
                user == resolveUserForContext(context)
                try(a, w) == updateRun(modelDef, acl, object, user, sent, a, w)
            IN  \E accessMatch \in Asked(try(DenyMatch, DenyMatch), AclAccess, AccessMatches) :
                \E writeMatch \in Asked(try(accessMatch, DenyMatch), AclWrite, WriteMatches) :
                  LET run == try(accessMatch, writeMatch)
                  IN  /\ storage' = IF run.save THEN save(storage, run.object) ELSE storage
                      /\ context' = contextAfterResolve(context)
                      /\ last' = [Answer("update") EXCEPT !.id = id, !.user = user,
                                     !.input = input, !.evaluated = run.evaluated,
                                     !.outcome = run.outcome, !.loaded = object,
                                     !.object = run.object,
                                     !.effects = IF run.save THEN <<"save">> ELSE <<>>]
    /\ ops' = ops + 1
    /\ UNCHANGED <<modelDef, acl, engine, loads>>

\* ------------------------------------------------------------------ create

resolveEnum(enumName, enumKey) ==
    IF enumName \in DOMAIN Enums
    THEN IF enumKey \in DOMAIN Enums[enumName] THEN Enums[enumName][enumKey] ELSE Undef
    ELSE Null

\* One element's default applied to the new instance.
applyDefault(e, instance) ==
    IF truthy(e.defaultEnum) /\ truthy(e.defaultEnumKey)
    THEN LET v == resolveEnum(e.defaultEnum, e.defaultEnumKey)
         IN IF truthy(v) THEN [instance EXCEPT ![e.field] = v] ELSE instance
    ELSE IF truthy(e.defaultValue)
    THEN [instance EXCEPT ![e.field] = e.defaultValue]
    ELSE instance

RECURSIVE applyDefaults(_, _, _)
applyDefaults(elements, n, instance) ==
    IF n > Len(elements) THEN instance
    ELSE applyDefaults(elements, n + 1, applyDefault(elements[n], instance))

\* The new instance left without an owner.
connectOwner_Skips(def, user, instance) ==
    instance

\* The owner join fields set to the creating identity.
connectOwner(def, user, instance) ==
    IF truthy(user)
    THEN [k \in InstanceKeys |->
            IF \E e \in filterModelElementsForOwnerFields(def.elements) : e.joinField = k
            THEN user ELSE instance[k]]
    ELSE instance

\* create up to newInstance.save(): the instance to save, if the caller may.
createRun(def, hasAcl, user, createMatch) ==
    LET newInstance == [NullObject EXCEPT !["created"] = Now, !["updated"] = Now]
        targets == userToAclTargets(def, user, newInstance)
        evaluated == IF hasAcl THEN <<Evaluation(AclCreate, targets, newInstance, createMatch)>>
                     ELSE <<>>
    IN  IF hasAcl /\ ~createMatch.allow
        THEN [outcome |-> Thrown("AuthorizationError"), evaluated |-> evaluated,
              object |-> newInstance, save |-> FALSE]
        ELSE [outcome |-> Returned("object"), evaluated |-> evaluated,
              object |-> applyDefaults(def.elements, 1, connectOwner(def, user, newInstance)),
              save |-> TRUE]

\* processDefinitionService.start({key, businessKey}): the engine starts the
\* process, which waits in its first task.
startProcess(eng, key, businessKey) ==
    [processInstances |-> eng.processInstances
        \cup {[id |-> businessKey, businessKey |-> businessKey, definitionKey |-> key]},
     tasks |-> eng.tasks
        \cup {[id |-> businessKey, processInstanceBusinessKey |-> businessKey,
               taskDefinitionKey |-> "submit"]}]

\* The start options naming a fixed business key.
createProcessOpts_FixedKey(newInstance) ==
    [key |-> ProcessKey, businessKey |-> "i1"]

\* createProcessOpts: the entity's process key and the saved instance's id.
createProcessOpts(newInstance) ==
    [key |-> ProcessKey, businessKey |-> newInstance["id"]]

\* The instance as a returned object (create returns newInstance itself).
asResult(instance) ==
    [props |-> [k \in ResultKeys |-> IF k \in InstanceKeys THEN instance[k] ELSE Undef],
     restrictedFields |-> Absent]

create ==
    /\ Ready
    /\ LET user == resolveUserForContext(context)
           try(c) == createRun(modelDef, acl, user, c)
       IN  \E createMatch \in Asked(try(DenyMatch), AclCreate, CreateMatches) :
           \E failing \in (IF try(createMatch).save THEN {"none", "processDefinition.start"}
                           ELSE {"none"}) :
             LET run == try(createMatch)
                 saved == save(storage, run.object)
                 newInstance == saved[Len(saved)]
                 started == run.save /\ failing # "processDefinition.start"
             IN  /\ storage' = IF run.save THEN saved ELSE storage
                 /\ engine' = IF started
                              THEN startProcess(engine, createProcessOpts(newInstance).key,
                                                createProcessOpts(newInstance).businessKey)
                              ELSE engine
                 /\ context' = contextAfterResolve(context)
                 /\ last' = [Answer("create") EXCEPT !.user = user, !.failing = failing,
                                !.id = IF run.save THEN newInstance["id"] ELSE Undef,
                                !.evaluated = run.evaluated,
                                !.outcome = IF run.save /\ ~started
                                            THEN Thrown("TransportError") ELSE run.outcome,
                                !.result = IF started THEN asResult(newInstance)
                                           ELSE EmptyResult,
                                !.object = IF run.save THEN newInstance ELSE run.object,
                                !.effects = IF run.save
                                            THEN <<"save", "processDefinition.start">>
                                            ELSE <<>>]
    /\ ops' = ops + 1
    /\ UNCHANGED <<modelDef, acl, loads>>

\* ----------------------------------------------------------------- destroy

State(status, title) == [NoMap EXCEPT !["status"] = status, !["title"] = title]

\* A state map that also names a field that is no state field and an id.
DoneState == [State("done", "z") EXCEPT !["id"] = "i2"]

\* The state maps a caller can send with destroy and completeTask.
StateInputs == {NoMap, DoneState, State("draft", Undef)}

\* The state map taken whole.
filteredStateOf_Unfiltered(def, state) ==
    state

\* _.pick(state, allowedKeys), allowedKeys the declared state fields; null
\* (no key) when there is no state or no state field.
filteredStateOf(def, state) ==
    LET allowedKeys == {e.field : e \in filterModelElementsForStates(def.elements)}
    IN [k \in InstanceKeys |-> IF k \in allowedKeys THEN state[k] ELSE Undef]

\* The filtered state left unapplied.
applyState_Dropped(object, filteredState) ==
    object

\* The object replaced by the filtered state instead of merged with it.
applyState_Whole(object, filteredState) ==
    IF filteredState = NoMap THEN object ELSE [filteredState EXCEPT !["id"] = object["id"]]

\* The object with the filtered state applied.
applyState(object, filteredState) ==
    [k \in InstanceKeys |-> IF filteredState[k] # Undef THEN filteredState[k] ELSE object[k]]

\* destroy up to the workflow teardown: what it evaluates, the object after
\* the state change, whether it is saved and whether the teardown follows.
destroyRun(def, hasAcl, object, user, state, accessMatch, destroyMatch) ==
    LET targets == userToAclTargets(def, user, object)
        isOwner == isOwnerOf(def, user, object)
        access == <<Evaluation(AclAccess, targets, object, accessMatch)>>
        destroyEval == <<Evaluation(AclDestroy, targets, object, destroyMatch)>>
        changed == applyState(object, filteredStateOf(def, state))
    IN  IF isNull(object)
        THEN [outcome |-> Thrown("Error"), evaluated |-> <<>>,
              object |-> object, save |-> FALSE, proceed |-> FALSE]
        ELSE IF hasAcl /\ ~accessMatch.allow
        THEN [outcome |-> Thrown("AuthorizationError"), evaluated |-> access,
              object |-> object, save |-> FALSE, proceed |-> FALSE]
        ELSE IF hasAcl /\ ~_restrictionsApplyToUser(accessMatch.allowedRestrictions, isOwner)
        THEN [outcome |-> Thrown("AuthorizationError"), evaluated |-> access,
              object |-> object, save |-> FALSE, proceed |-> FALSE]
        ELSE IF hasAcl /\ ~destroyMatch.allow
        THEN [outcome |-> Thrown("AuthorizationError"), evaluated |-> access \o destroyEval,
              object |-> object, save |-> FALSE, proceed |-> FALSE]
        ELSE [outcome |-> Returned(Undef),
              evaluated |-> IF hasAcl THEN access \o destroyEval ELSE <<>>,
              object |-> changed, save |-> changed # object, proceed |-> TRUE]

\* processInstanceService.list({businessKey, processDefinitionKey})
listProcessInstances(eng, businessKey, processDefinitionKey) ==
    {p \in eng.processInstances :
        p.businessKey = businessKey /\ p.definitionKey = processDefinitionKey}

\* The engine after the deletion of a process instance: its tasks go with it.
deleteProcessInstance(eng, processInstanceId) ==
    [processInstances |-> {p \in eng.processInstances : p.id # processInstanceId},
     tasks |-> {t \in eng.tasks :
                  \A p \in eng.processInstances :
                      p.id = processInstanceId => t.processInstanceBusinessKey # p.businessKey}]

NoProcessInstance == [id |-> Undef, businessKey |-> Undef, definitionKey |-> Undef]

\* The teardown answering true without the deletion call.
destroyTeardown_NoDelete(eng, id, data, first, failing) ==
    IF failing = "processInstance.list"
    THEN [outcome |-> Thrown("Error"), engine |-> eng, effects |-> <<"processInstance.list">>]
    ELSE IF data # {} /\ truthy(first.id) /\ truthy(first.businessKey)
                      /\ first.businessKey = id
    THEN [outcome |-> Returned(True), engine |-> eng, effects |-> <<"processInstance.list">>]
    ELSE [outcome |-> Returned(False), engine |-> eng, effects |-> <<"processInstance.list">>]

\* The teardown deleting every process instance of the engine.
destroyTeardown_DeletesAll(eng, id, data, first, failing) ==
    IF failing = "processInstance.list"
    THEN [outcome |-> Thrown("Error"), engine |-> eng, effects |-> <<"processInstance.list">>]
    ELSE IF data # {} /\ truthy(first.id) /\ truthy(first.businessKey)
                      /\ first.businessKey = id
    THEN IF failing = "processInstance.delete"
         THEN [outcome |-> Thrown("Error"), engine |-> eng,
               effects |-> <<"processInstance.list", "processInstance.delete">>]
         ELSE [outcome |-> Returned(True), engine |-> NoEngine,
               effects |-> <<"processInstance.list", "processInstance.delete">>]
    ELSE [outcome |-> Returned(False), engine |-> eng, effects |-> <<"processInstance.list">>]

\* The workflow teardown of destroy: data is what the engine listed and
\* first is data[0]; failing names the engine call that fails, if any.
destroyTeardown(eng, id, data, first, failing) ==
    IF failing = "processInstance.list"
    THEN [outcome |-> Thrown("Error"), engine |-> eng, effects |-> <<"processInstance.list">>]
    ELSE IF data # {} /\ truthy(first.id) /\ truthy(first.businessKey)
                      /\ first.businessKey = id
    THEN IF failing = "processInstance.delete"
         THEN [outcome |-> Thrown("Error"), engine |-> eng,
               effects |-> <<"processInstance.list", "processInstance.delete">>]
         ELSE [outcome |-> Returned(True), engine |-> deleteProcessInstance(eng, first.id),
               effects |-> <<"processInstance.list", "processInstance.delete">>]
    ELSE [outcome |-> Returned(False), engine |-> eng, effects |-> <<"processInstance.list">>]

destroy(id, state) ==
    /\ Ready
    /\ LET object == find(id)
           user == resolveUserForContext(context)
           try(a, d) == destroyRun(modelDef, acl, object, user, state, a, d)
           data == listProcessInstances(engine, id, ProcessKey)
       IN  \E accessMatch \in Asked(try(DenyMatch, DenyMatch), AclAccess, AccessMatches) :
           \E destroyMatch \in Asked(try(accessMatch, DenyMatch), AclDestroy, DestroyMatches) :
           \E first \in (IF data = {} THEN {NoProcessInstance} ELSE data) :
           \E failing \in (IF try(accessMatch, destroyMatch).proceed
                           THEN Failing(destroyTeardown(engine, id, data, first, "none"))
                           ELSE {"none"}) :
             LET run == try(accessMatch, destroyMatch)
                 teardown == destroyTeardown(engine, id, data, first, failing)
             IN  /\ storage' = IF run.save THEN save(storage, run.object) ELSE storage
                 /\ engine' = IF run.proceed THEN teardown.engine ELSE engine
                 /\ last' = [Answer("destroy") EXCEPT !.id = id, !.user = user,
                                !.failing = failing,
                                !.state = state, !.evaluated = run.evaluated,
                                !.outcome = IF run.proceed THEN teardown.outcome
                                            ELSE run.outcome,
                                !.loaded = object, !.object = run.object,
                                !.effects = (IF run.save THEN <<"save">> ELSE <<>>)
                                    \o (IF run.proceed THEN teardown.effects ELSE <<>>)]
    /\ context' = contextAfterResolve(context)
    /\ ops' = ops + 1
    /\ UNCHANGED <<modelDef, acl, loads>>

\* ---------------------------------------------------------------- getTasks

\* taskService.list({processInstanceBusinessKey})
listTasks(eng, businessKey) ==
    {t \in eng.tasks : t.processInstanceBusinessKey = businessKey}

\* The tasks with the match's allowedTasks not applied.
allowedTasksOf_IgnoresPolicy(hasAcl, tasksAclMatch, tasks) ==
    tasks

\* The tasks with the match's allowedTasks read as the keys to leave out.
allowedTasksOf_KeepsExcluded(hasAcl, tasksAclMatch, tasks) ==
    IF hasAcl /\ tasksAclMatch.allowedTasks # Absent
    THEN {t \in tasks : t.taskDefinitionKey \notin tasksAclMatch.allowedTasks}
    ELSE tasks

\* The tasks with the filter given up when it would leave none.
allowedTasksOf_UnlessEmpty(hasAcl, tasksAclMatch, tasks) ==
    IF hasAcl /\ tasksAclMatch.allowedTasks # Absent
          /\ \E t \in tasks : t.taskDefinitionKey \in tasksAclMatch.allowedTasks
    THEN {t \in tasks : t.taskDefinitionKey \in tasksAclMatch.allowedTasks}
    ELSE tasks

\* The tasks a task match lets through.
allowedTasksOf(hasAcl, tasksAclMatch, tasks) ==
    IF hasAcl /\ tasksAclMatch.allowedTasks # Absent
    THEN {t \in tasks : t.taskDefinitionKey \in tasksAclMatch.allowedTasks}
    ELSE tasks

getTasksRun(def, hasAcl, object, user, pending, failing, taskMatch) ==
    LET targets == userToAclTargets(def, user, object)
        taskEval == <<Evaluation(AclTask, targets, object, taskMatch)>>
        evaluated == IF hasAcl THEN taskEval ELSE <<>>
    IN  IF isNull(object)
        THEN [outcome |-> Thrown("NotFoundError"), evaluated |-> <<>>,
              tasks |-> {}, effects |-> <<>>]
        ELSE IF hasAcl /\ ~taskMatch.allow
        THEN [outcome |-> Thrown("AuthorizationError"), evaluated |-> evaluated,
              tasks |-> {}, effects |-> <<>>]
        ELSE IF failing = "task.list"
        THEN [outcome |-> Thrown("Error"), evaluated |-> evaluated,
              tasks |-> {}, effects |-> <<"task.list">>]
        ELSE [outcome |-> Returned("list"), evaluated |-> evaluated,
              tasks |-> allowedTasksOf(hasAcl, taskMatch, pending),
              effects |-> <<"task.list">>]

getTasks(id) ==
    /\ Ready
    /\ LET object == find(id)
           user == resolveUserForContext(context)
           try(f, t) == getTasksRun(modelDef, acl, object, user, listTasks(engine, id), f, t)
       IN  \E taskMatch \in Asked(try("none", DenyMatch), AclTask, TaskMatches) :
           \E failing \in Failing(try("none", taskMatch)) :
             LET run == try(failing, taskMatch)
             IN  last' = [Answer("getTasks") EXCEPT !.id = id, !.user = user,
                             !.failing = failing,
                             !.evaluated = run.evaluated, !.outcome = run.outcome,
                             !.tasks = run.tasks, !.effects = run.effects,
                             !.loaded = object, !.object = object]
    /\ context' = contextAfterResolve(context)
    /\ ops' = ops + 1
    /\ UNCHANGED <<modelDef, acl, storage, engine, loads>>

\* ------------------------------------------------------------ completeTask

\* The state maps a caller can send with completeTask: those of destroy
\* and one giving a state field a boolean value.
TaskStateInputs == StateInputs \cup {State(True, Undef)}

\* The process variables built from the filtered state: the keys whose
\* value is a string, a number or null; a boolean is none of these.
newVarsOf(filteredState) ==
    [k \in InstanceKeys |->
        IF filteredState[k] \in {True, False} THEN Undef ELSE filteredState[k]]

\* taskService.complete({id, variables}): the task is no longer pending.
completeEngineTask(eng, taskId) ==
    [eng EXCEPT !.tasks = {t \in eng.tasks : t.id # taskId}]

\* completeTask after the loads; pending is what taskService.list answered.
completeTaskRun(def, hasAcl, object, user, id, taskId, state, pending, failing, accessMatch, taskMatch) ==
    LET tasks == {t \in pending : t.id = taskId}
        targets == userToAclTargets(def, user, object)
        isOwner == isOwnerOf(def, user, object)
        access == <<Evaluation(AclAccess, targets, object, accessMatch)>>
        taskEval == <<Evaluation(AclTask, targets, object, taskMatch)>>
        filteredTasks == allowedTasksOf(hasAcl, taskMatch, tasks)
        filteredState == filteredStateOf(def, state)
        changed == applyState(object, filteredState)
        evaluatedAll == IF hasAcl THEN access \o taskEval ELSE <<>>
        stop(outcome, evaluated, effects) ==
            [outcome |-> outcome, evaluated |-> evaluated, object |-> object,
             save |-> FALSE, complete |-> FALSE, effects |-> effects, variables |-> NoMap]
    IN  IF ~truthy(id) \/ ~truthy(taskId)
        THEN stop(Thrown("UserInputError"), <<>>, <<>>)
        ELSE IF failing = "task.list"
        THEN stop(Thrown("TransportError"), <<>>, <<"task.list">>)
        ELSE IF isNull(object)
        THEN stop(Thrown("Error"), <<>>, <<"task.list">>)
        ELSE IF tasks = {}
        THEN stop(Thrown("Error"), <<>>, <<"task.list">>)
        ELSE IF hasAcl /\ ~accessMatch.allow
        THEN stop(Thrown("AuthorizationError"), access, <<"task.list">>)
        ELSE IF hasAcl /\ ~_restrictionsApplyToUser(accessMatch.allowedRestrictions, isOwner)
        THEN stop(Thrown("AuthorizationError"), access, <<"task.list">>)
        ELSE IF hasAcl /\ ~taskMatch.allow
        THEN stop(Thrown("AuthorizationError"), evaluatedAll, <<"task.list">>)
        ELSE IF filteredTasks = {}
        THEN stop(Thrown("AuthorizationError"), evaluatedAll, <<"task.list">>)
        ELSE [outcome |-> IF failing = "task.complete" THEN Thrown("Error")
                          ELSE Returned(True),
              evaluated |-> evaluatedAll, object |-> changed, save |-> changed # object,
              complete |-> failing # "task.complete",
              effects |-> <<"task.list">>
                  \o (IF changed # object THEN <<"save">> ELSE <<>>) \o <<"task.complete">>,
              variables |-> newVarsOf(filteredState)]

completeTask(id, taskId, state) ==
    /\ Ready
    /\ LET object == find(id)
           user == resolveUserForContext(context)
           try(f, a, t) ==
               completeTaskRun(modelDef, acl, object, user, id, taskId, state,
                               listTasks(engine, id), f, a, t)
       IN  \E accessMatch \in Asked(try("none", DenyMatch, DenyMatch), AclAccess, AccessMatches) :
           \E taskMatch \in Asked(try("none", accessMatch, DenyMatch), AclTask, TaskMatches) :
           \E failing \in Failing(try("none", accessMatch, taskMatch)) :
             LET run == try(failing, accessMatch, taskMatch)
             IN  /\ storage' = IF run.save THEN save(storage, run.object) ELSE storage
                 /\ engine' = IF run.complete THEN completeEngineTask(engine, taskId)
                              ELSE engine
                 /\ last' = [Answer("completeTask") EXCEPT !.id = id, !.taskId = taskId,
                                !.user = user, !.state = state, !.failing = failing,
                                !.evaluated = run.evaluated, !.outcome = run.outcome,
                                !.loaded = object, !.object = run.object,
                                !.effects = run.effects, !.variables = run.variables]
    /\ context' = IF truthy(id) /\ truthy(taskId)
                  THEN contextAfterResolve(context) ELSE context
    /\ ops' = ops + 1
    /\ UNCHANGED <<modelDef, acl, loads>>

\* ------------------------------------------- resolveInstanceUsingContext

\* A promise that is not settled yet.
Pending == [kind |-> "pending", error |-> "none", value |-> Undef, fields |-> {}]

\* A storage find in flight: the id asked for, the number of the call that
\* issued it and the object it will deliver.
Load(id, load, object) == [id |-> id, load |-> load, object |-> object]

\* The request cache is consulted: a context was passed and it carries a
\* user reference.
usesLookup(contextGiven, ctx) == contextGiven /\ truthy(ctx.user)

\* The call of resolveInstanceUsingContext: without a signed-in request it
\* answers a plain find; with the id cached it answers the cached object;
\* otherwise it issues a find whose callback fills the cache later, and
\* other calls can be made in the meantime.
resolveInstanceUsingContext(instanceId) ==
    /\ Ready
    /\ LET cached == context.instanceLookup[instanceId]
           answer(object, effects) ==
               [Answer("resolveInstanceUsingContext") EXCEPT
                   !.id = instanceId, !.outcome = Returned("object"),
                   !.loaded = object, !.object = object, !.effects = effects]
       IN  IF ~usesLookup(TRUE, context)
           THEN /\ last' = answer(find(instanceId), <<"find">>)
                /\ UNCHANGED loads
           ELSE IF ~isNull(cached)
           THEN /\ last' = answer(cached, <<>>)
                /\ UNCHANGED loads
           ELSE /\ last' = [Answer("resolveInstanceUsingContext") EXCEPT
                               !.id = instanceId, !.outcome = Pending,
                               !.effects = <<"find">>]
                /\ loads' = loads \cup {Load(instanceId, ops + 1, find(instanceId))}
    /\ ops' = ops + 1
    /\ UNCHANGED <<modelDef, acl, storage, engine, context>>

\* The callback of a find issued by resolveInstanceUsingContext: the
\* object is stored in the cache under its id and answered.
instanceLoaded(l) ==
    /\ Idle
    /\ l \in loads
    /\ loads' = loads \ {l}
    /\ context' = [context EXCEPT !.instanceLookup[l.id] = l.object,
                                  !.lookupLoad[l.id] = IF isNull(l.object) THEN 0 ELSE l.load]
    /\ last' = [Answer("instanceLoaded") EXCEPT
                   !.id = l.id, !.outcome = Returned("object"),
                   !.loaded = l.object, !.object = l.object]
    /\ UNCHANGED <<modelDef, acl, storage, engine, ops>>

\* -------------------------------------------------------- resolveRelation

\* The parents a relation field is resolved on: none, or an object get or
\* list returned (its id).
RelationParents == {Undef} \cup KnownIds

\* resolveRelation(element, parent, info, context): eager tells that the
\* parent carries the relation's value already. Otherwise the instance is
\* resolved by resolveInstanceUsingContext(parent.id), called with no
\* context, and its related query is answered.
resolveRelation(parentId, eager) ==
    /\ Ready
    /\ LET answer(outcome, object, effects) ==
               [Answer("resolveRelation") EXCEPT
                   !.id = parentId, !.eager = eager, !.outcome = outcome,
                   !.loaded = object, !.object = object, !.effects = effects]
           cached == usesLookup(FALSE, context) /\ ~isNull(context.instanceLookup[parentId])
           instance == IF cached THEN context.instanceLookup[parentId] ELSE find(parentId)
           finds == IF cached THEN <<>> ELSE <<"find">>
       IN  last' = IF ~truthy(parentId)
                   THEN answer(Returned(Null), NullObject, <<>>)
                   ELSE IF eager
                   THEN answer(Returned("relation"), NullObject, <<>>)
                   ELSE IF isNull(instance)
                   THEN \* instance.$relatedQuery on null
                        answer(Thrown("TypeError"), instance, finds)
                   ELSE answer(Returned("relation"), instance, finds)
    /\ ops' = ops + 1
    /\ UNCHANGED <<modelDef, acl, storage, engine, context, loads>>

\* ------------------------------------------------------------- requests

\* The answer is delivered; the same request goes on (nested resolution,
\* a further field of the same query).
Continue ==
    /\ ~Idle
    /\ last' = [NoLast EXCEPT !.op = "idle", !.prev = PrevOf(last)]
    /\ UNCHANGED <<modelDef, acl, storage, engine, context, ops, loads>>

\* The answer is delivered and a new inbound request arrives: a fresh
\* context carrying the caller's reference.
NewRequest(ref) ==
    /\ ~Idle
    /\ context' = FreshContext(ref)
    /\ loads' = {}
    /\ last' = [NoLast EXCEPT !.op = "idle", !.prev = PrevOf(last)]
    /\ UNCHANGED <<modelDef, acl, storage, engine, ops>>

\* ------------------------------------------------------------------ Init

\* An instance created earlier by bob, with its workflow process and a
\* pending task.
BobsInstance ==
    [NullObject EXCEPT !["id"] = "i1", !["created"] = "then", !["updated"] = "then",
                       !["title"] = "x", !["secret"] = "s", !["status"] = "draft",
                       !["phase"] = "pending", !["submitterId"] = "bob"]

ProcessInstance(id) == [id |-> id, businessKey |-> id, definitionKey |-> ProcessKey]

Task(id, key) == [id |-> id, processInstanceBusinessKey |-> id, taskDefinitionKey |-> key]

Init ==
    /\ modelDef \in ModelDefs
    /\ acl \in BOOLEAN
    /\ storage = <<IF filterModelElementsForOwnerFields(modelDef.elements) = {}
                   THEN [BobsInstance EXCEPT !["submitterId"] = Undef]
                   ELSE BobsInstance>>
    /\ engine = [processInstances |-> {ProcessInstance("i1")},
                 tasks |-> {Task("i1", "submit")}]
    /\ context \in {FreshContext(ref) : ref \in UserRefs}
    /\ loads = {}
    /\ last = NoLast
    /\ ops = 0

Next ==
    \/ Continue
    \/ \E ref \in UserRefs : NewRequest(ref)
    \/ \E id \in KnownIds, f \in TopLevelFieldSets : get(id, f)
    \/ \E filter \in ListFilters, f \in TopLevelFieldSets : list(filter, f)
    \/ \E id \in KnownIds, input \in UpdateInputs : update(id, input)
    \/ create
    \/ \E id \in KnownIds, state \in StateInputs : destroy(id, state)
    \/ \E id \in KnownIds : getTasks(id)
    \/ \E id \in KnownIds, taskId \in KnownIds \cup {Undef}, state \in TaskStateInputs :
          completeTask(id, taskId, state)
    \/ \E id \in KnownIds : resolveInstanceUsingContext(id)
    \/ \E l \in loads : instanceLoaded(l)
    \/ \E parentId \in RelationParents, eager \in BOOLEAN : resolveRelation(parentId, eager)

Spec == Init /\ [][Next]_vars

\* ================================================================== claims

\* The match the last operation got for an action (DenyMatch when it did
\* not ask), and whether it asked.
AskedFor(action) == \E n \in 1..Len(last.evaluated) : last.evaluated[n].action = action

MatchFor(action) ==
    IF AskedFor(action)
    THEN last.evaluated[CHOOSE n \in 1..Len(last.evaluated) :
                            last.evaluated[n].action = action].match
    ELSE DenyMatch

\* The caller of the last operation owns the instance it loaded.
CallerIsOwner ==
    /\ truthy(last.user)
    /\ ~isNull(last.loaded)
    /\ \E e \in SeqToSet(modelDef.elements) :
          e.isOwnerField /\ truthy(e.joinField) /\ last.loaded[e.joinField] = last.user

\* The read match of the last get does not allow field f.
ReadDisallows(f) ==
    \/ ~MatchFor(AclRead).allow
    \/ MatchFor(AclRead).allowedFields # Absent /\ f \notin MatchFor(AclRead).allowedFields

GetAnswered == last.op = "get" /\ last.outcome = Returned("object") /\ AskedFor(AclRead)

MutatingCalls == {"processDefinition.start", "processInstance.delete", "task.complete"}

NoSideEffect ==
    /\ storage = last.before
    /\ engine = last.engineBefore
    /\ \A n \in 1..Len(last.effects) : last.effects[n] \notin MutatingCalls \cup {"save"}

\* ---- C1

\* C1 as stated: every requested field the read match does not allow is
\* absent from the object get returns and listed in its restrictedFields.
C1_RedactionAllFields ==
    GetAnswered =>
        \A f \in last.topLevelFields :
            ReadDisallows(f) =>
                /\ f \notin ResultKeysOf(last.result)
                /\ last.result.restrictedFields # Absent
                /\ f \in last.result.restrictedFields

\* C1 amended: every requested field outside the minimal set (id, created,
\* updated, tasks, restrictedFields) that the read match does not allow is
\* absent from the object get returns and listed in its restrictedFields.
C1_RedactionCompleteness ==
    GetAnswered =>
        \A f \in last.topLevelFields \ {"id", "created", "updated", "tasks", "restrictedFields"} :
            ReadDisallows(f) =>
                /\ f \notin ResultKeysOf(last.result)
                /\ last.result.restrictedFields # Absent
                /\ f \in last.result.restrictedFields

\* A get whose read match narrows the fields, with secret requested, stored
\* and redacted.
C1_Witness ==
    /\ GetAnswered
    /\ MatchFor(AclRead).allow
    /\ MatchFor(AclRead).allowedFields = {"title", "submitterId"}
    /\ "secret" \in last.topLevelFields
    /\ last.loaded["secret"] = "s"
    /\ last.result.props["secret"] = Undef
    /\ last.result.restrictedFields = {"secret"}

\* ---- C2

GatedOps == {"get", "update", "destroy", "completeTask"}

\* C2 as stated: an allowing access match whose allowedRestrictions set
\* lacks "all", the empty set included, denies every caller who is not an
\* owner with an AuthorizationError.
C2_RestrictionAnySet ==
    (/\ last.op \in GatedOps
     /\ AskedFor(AclAccess)
     /\ MatchFor(AclAccess).allow
     /\ MatchFor(AclAccess).allowedRestrictions # Absent
     /\ "all" \notin MatchFor(AclAccess).allowedRestrictions
     /\ ~CallerIsOwner)
        => last.outcome = Thrown("AuthorizationError")

\* C2 amended: an allowing access match whose allowedRestrictions is a
\* non-empty set without "all" denies every caller who is not an owner
\* with an AuthorizationError, and the operation changes nothing.
C2_RestrictionConsistency ==
    (/\ last.op \in GatedOps
     /\ AskedFor(AclAccess)
     /\ MatchFor(AclAccess).allow
     /\ MatchFor(AclAccess).allowedRestrictions # Absent
     /\ MatchFor(AclAccess).allowedRestrictions # {}
     /\ "all" \notin MatchFor(AclAccess).allowedRestrictions
     /\ ~CallerIsOwner)
        => /\ last.outcome = Thrown("AuthorizationError")
           /\ NoSideEffect

\* A signed-in caller who does not own the instance is refused the
\* completion of its pending task by an owner-only access match.
C2_Witness ==
    /\ last.op = "completeTask"
    /\ last.user = "ann"
    /\ last.loaded["submitterId"] = "bob"
    /\ MatchFor(AclAccess) = Match(TRUE, Absent, {"owner"}, Absent)
    /\ last.outcome = Thrown("AuthorizationError")

\* ---- C3

\* The update reached the partition of its input keys: the model is
\* input-enabled and the access and write gates let the caller through.
UpdatePartitioned ==
    /\ last.op = "update"
    /\ modelDef.input = True
    /\ acl => AskedFor(AclWrite) /\ MatchFor(AclWrite).allow

\* The input ceiling of the schema, narrowed by the write match.
WriteAllowed ==
    {f \in {"title", "status", "count", "phase", "submitter"} :
        \/ ~acl
        \/ MatchFor(AclWrite).allowedFields = Absent
        \/ f \in MatchFor(AclWrite).allowedFields}
    \cap {e.field : e \in {x \in SeqToSet(modelDef.elements) : x.input # False}}

DisallowedKeys == KeysOf(last.input) \ WriteAllowed

\* C3 as stated: an update with a disallowed key fails with an
\* AuthorizationError naming the disallowed keys and leaves the instance
\* unmodified, in storage and on the loaded object.
C3_NothingApplied ==
    (UpdatePartitioned /\ ~isNull(last.loaded) /\ DisallowedKeys # {}) =>
        /\ last.outcome = ThrownNaming("AuthorizationError", DisallowedKeys)
        /\ storage = last.before
        /\ last.object = last.loaded

\* C3 amended: an update with a disallowed key ends in an error and saves
\* nothing, so storage is left unmodified; when the instance exists the
\* error is an AuthorizationError naming exactly the disallowed keys, and
\* the loaded object, which is dropped, carries the allowed keys' values.
C3_AllOrNothingUpdate ==
    (UpdatePartitioned /\ DisallowedKeys # {}) =>
        /\ last.outcome.kind = "throw"
        /\ NoSideEffect
        /\ ~isNull(last.loaded) =>
              /\ last.outcome = ThrownNaming("AuthorizationError", DisallowedKeys)
              /\ \A k \in InstanceKeys :
                    last.object[k] = IF k \in KeysOf(last.input) \cap WriteAllowed
                                     THEN last.input[k] ELSE last.loaded[k]

\* An update of title and secret: secret is refused, title is not stored.
C3_Witness ==
    /\ UpdatePartitioned
    /\ last.input = Input("y", "t", Undef)
    /\ last.loaded["title"] = "x"
    /\ last.outcome = ThrownNaming("AuthorizationError", {"secret"})
    /\ find(last.id)["title"] = "x"
    /\ last.object["title"] = "y"

\* ---- C4

\* The rows of the last list, as stored.
RowIds == {last.rows[n].props["id"] : n \in 1..Len(last.rows)}

\* C4: a list whose access match has an allowedRestrictions set without
\* "all" rejects an unauthenticated caller and returns to an authenticated
\* one only rows that hold the caller's id in an owner field, whatever the
\* schema.
C4_ListOwnershipFilter ==
    (/\ last.op = "list"
     /\ AskedFor(AclAccess)
     /\ MatchFor(AclAccess).allow
     /\ MatchFor(AclAccess).allowedRestrictions # Absent
     /\ "all" \notin MatchFor(AclAccess).allowedRestrictions)
        => /\ ~truthy(last.user) => last.outcome = Thrown("AuthorizationError")
           /\ truthy(last.user) =>
                \A i \in RowIds :
                    \E e \in SeqToSet(modelDef.elements) :
                        e.isOwnerField /\ truthy(e.joinField)
                            /\ find(i)[e.joinField] = last.user

\* ---- C5

\* The keys of the objects the last get or list returned, restrictedFields
\* aside.
ReturnedFields ==
    IF last.op = "get" /\ last.outcome = Returned("object")
    THEN ResultKeysOf(last.result) \ {"restrictedFields"}
    ELSE IF last.op = "list"
    THEN UNION {ResultKeysOf(last.rows[n]) \ {"restrictedFields"} : n \in 1..Len(last.rows)}
    ELSE {}

\* The keys the last update assigned, on the loaded object and in storage.
UpdatedFields ==
    IF last.op = "update"
    THEN {k \in InstanceKeys : last.object[k] # last.loaded[k]}
         \cup {k \in InstanceKeys :
                 \E n \in 1..Len(last.before) : storage[n][k] # last.before[n][k]}
    ELSE {}

ReadCeiling == {e.field : e \in {x \in SeqToSet(modelDef.elements) : truthy(x.field)}}

InputCeiling ==
    {e.field : e \in {x \in SeqToSet(modelDef.elements) : truthy(x.field) /\ x.input # False}}

\* C5 as stated: what get and list return lies within the allowed-read
\* ceiling and what update applies within the allowed-input ceiling.
C5_CeilingOnly ==
    /\ ReturnedFields \subseteq ReadCeiling
    /\ UpdatedFields \subseteq InputCeiling

\* C5 amended: what get and list return lies within the allowed-read
\* ceiling together with the minimal set (id, created, updated, tasks,
\* restrictedFields), and what update applies within the allowed-input
\* ceiling; a match's allowedFields never adds a field.
C5_FieldCeiling ==
    /\ ReturnedFields \subseteq
          ReadCeiling \cup {"id", "created", "updated", "tasks", "restrictedFields"}
    /\ UpdatedFields \subseteq InputCeiling

\* A get whose read match names submitterId, a key of the instance that is
\* no schema field: it is requested, held by the instance and not returned.
C5_Witness ==
    /\ GetAnswered
    /\ MatchFor(AclRead).allowedFields = {"title", "submitterId"}
    /\ "submitterId" \in last.topLevelFields
    /\ last.loaded["submitterId"] = "bob"
    /\ "submitterId" \notin ReturnedFields
    /\ "title" \in ReturnedFields

\* ---- C6

\* The task the last completeTask named, as the engine held it.
NamedTasks ==
    {t \in last.engineBefore.tasks :
        t.processInstanceBusinessKey = last.id /\ t.id = last.taskId}

\* Some authorization check of the last operation denied the caller.
Denied ==
    \/ \E n \in 1..Len(last.evaluated) : ~last.evaluated[n].match.allow
    \/ /\ AskedFor(AclAccess)
       /\ MatchFor(AclAccess).allowedRestrictions \notin {Absent, {}}
       /\ "all" \notin MatchFor(AclAccess).allowedRestrictions
       /\ ~(CallerIsOwner /\ "owner" \in MatchFor(AclAccess).allowedRestrictions)
    \/ /\ last.op = "completeTask"
       /\ AskedFor(AclTask)
       /\ MatchFor(AclTask).allowedTasks # Absent
       /\ \A t \in NamedTasks : t.taskDefinitionKey \notin MatchFor(AclTask).allowedTasks
    \/ UpdatePartitioned /\ DisallowedKeys # {}

\* C6: a create, update, destroy or completeTask in which an authorization
\* check denies the caller saves no instance and makes no mutating call to
\* the workflow engine.
C6_GatesBeforeSideEffects ==
    (last.op \in {"create", "update", "destroy", "completeTask"} /\ Denied) => NoSideEffect

\* A completeTask that would change the status and complete the pending
\* task, refused because the task match excludes the task.
C6_Witness ==
    /\ last.op = "completeTask"
    /\ last.state = DoneState
    /\ last.loaded["status"] = "draft"
    /\ NamedTasks # {}
    /\ MatchFor(AclTask) = Match(TRUE, Absent, Absent, {"review"})
    /\ last.outcome = Thrown("AuthorizationError")
    /\ find(last.id)["status"] = "draft"
    /\ NamedTasks \subseteq engine.tasks

\* ---- C7

\* The last destroy found its instance, passed its gates and reached the
\* workflow engine.
DestroyServed ==
    /\ last.op = "destroy"
    /\ ~isNull(last.loaded)
    /\ ~Denied
    /\ last.failing = "none"

\* C7: a destroy of an existing instance with no workflow process instance
\* under its id returns false and raises no error, and so does the destroy
\* that follows a destroy of the same id that returned true.
C7_IdempotentDestroy ==
    /\ (/\ DestroyServed
        /\ \A p \in last.engineBefore.processInstances : p.businessKey # last.id)
          => last.outcome = Returned(False)
    /\ (/\ DestroyServed
        /\ last.prev.op = "destroy"
        /\ last.prev.id = last.id
        /\ last.prev.outcome \in {Returned(True), Returned(False)})
          => last.outcome = Returned(False)

\* Two destroys of the same instance in a row: true, then false.
C7_Witness ==
    /\ DestroyServed
    /\ last.prev = [op |-> "destroy", id |-> last.id, outcome |-> Returned(True)]
    /\ last.outcome = Returned(False)

\* ---- C8

\* The instance the last create persisted.
Created == find(last.id)

\* C8: an authorized create persists, in every field whose element declares
\* a literal default, falsy ones included, or an enum default that
\* resolves, that default, unless the field was set otherwise.
C8_DefaultApplication ==
    (/\ last.op = "create"
     /\ \E n \in 1..Len(last.effects) : last.effects[n] = "save")
        => \A e \in SeqToSet(modelDef.elements) :
              /\ (e.field # Undef /\ e.defaultEnum = Undef /\ e.defaultValue # Undef)
                    => Created[e.field] = e.defaultValue
              /\ (e.field # Undef /\ e.defaultEnum = "Phase" /\ e.defaultEnumKey = "Initial")
                    => Created[e.field] = "pending"

\* ---- C9

\* C9: a get of an id storage does not hold throws a NotFoundError,
\* registers nothing in the request cache and evaluates no policy.
C9_GetNotFound ==
    (last.op = "get" /\ isNull(last.loaded)) =>
        /\ last.outcome = Thrown("NotFoundError")
        /\ context.instanceLookup[last.id] = NullObject
        /\ last.evaluated = <<>>

\* ---- C10

\* C10: update, destroy, getTasks and completeTask of an id storage does
\* not hold throw a NotFoundError before any policy evaluation, save or
\* mutating engine call, and so does completeTask of a task the engine
\* does not hold for the instance.
C10_NotFound ==
    /\ (/\ last.op \in {"update", "destroy", "getTasks", "completeTask"}
        /\ last.op = "update" => modelDef.input = True
        /\ last.op = "completeTask" => truthy(last.taskId)
        /\ last.failing = "none"
        /\ \A n \in 1..Len(last.before) : last.before[n]["id"] # last.id)
          => /\ last.outcome = Thrown("NotFoundError")
             /\ last.evaluated = <<>>
             /\ NoSideEffect
    /\ (/\ last.op = "completeTask"
        /\ truthy(last.taskId)
        /\ last.failing = "none"
        /\ ~isNull(last.loaded)
        /\ NamedTasks = {})
          => last.outcome = Thrown("NotFoundError")

\* ---- C11

\* The objects the last get or list returned, each with the instance it
\* was built from.
ReturnedObjects ==
    IF last.op = "get" /\ last.outcome = Returned("object")
    THEN {[result |-> last.result, instance |-> last.loaded]}
    ELSE IF last.op = "list" /\ last.outcome = Returned("list")
    THEN {[result |-> last.rows[n], instance |-> find(last.rows[n].props["id"])] :
             n \in 1..Len(last.rows)}
    ELSE {}

\* C11: in every object get or list returns, a requested field of the
\* minimal set (id, created, updated, tasks, restrictedFields) is never
\* listed in restrictedFields, and id, created and updated are returned when
\* requested and held by the instance, whatever the read match.
C11_MinimalFieldSet ==
    \A o \in ReturnedObjects :
        \A f \in last.topLevelFields \cap AdditionalAllowedGetFields :
            /\ o.result.restrictedFields # Absent => f \notin o.result.restrictedFields
            /\ (f \in {"id", "created", "updated"} /\ o.instance[f] # Undef)
                  => o.result.props[f] = o.instance[f]

\* ---- C12

\* The objects the last get or list returned, each with the read match it
\* was built under (list evaluates read once per row, after access).
ReturnedUnderMatch ==
    IF last.op = "get" /\ last.outcome = Returned("object")
    THEN {[result |-> last.result, match |-> MatchFor(AclRead)]}
    ELSE IF last.op = "list" /\ last.outcome = Returned("list")
    THEN {[result |-> last.rows[n],
           match |-> IF acl THEN last.evaluated[n + 1].match ELSE DenyMatch] :
             n \in 1..Len(last.rows)}
    ELSE {}

\* The requested fields that are disallowed under read match m: those
\* outside the minimal set that the schema does not declare or the match
\* does not allow.
RequestedDisallowed(m) ==
    {f \in last.topLevelFields \ {"id", "created", "updated", "tasks", "restrictedFields"} :
        \/ f \notin ReadCeiling
        \/ acl /\ ~m.allow
        \/ acl /\ m.allowedFields # Absent /\ f \notin m.allowedFields}

\* C12: an object get or list returns has the restrictedFields key exactly
\* when some requested field is disallowed, the list then names exactly
\* the requested disallowed fields, and it is never empty.
C12_RestrictedFieldsExact ==
    \A o \in ReturnedUnderMatch :
        /\ (o.result.restrictedFields # Absent) <=> (RequestedDisallowed(o.match) # {})
        /\ o.result.restrictedFields # Absent
              => o.result.restrictedFields = RequestedDisallowed(o.match)
        /\ o.result.restrictedFields # {}

\* ---- C13

\* The instance the n-th policy evaluation of the last operation was given
\* (NullObject: none): list evaluates access without one and read once per
\* row, create passes the new instance, which holds no owner yet, and every
\* other operation passes the instance it loaded.
SuppliedInstance(n) ==
    IF last.op = "list"
    THEN (IF n = 1 THEN NullObject ELSE find(last.rows[n - 1].props["id"]))
    ELSE IF last.op = "create" THEN NullObject
    ELSE last.loaded

\* The caller's id is the value of an owner field of the instance.
OwnsInstance(instance) ==
    \E e \in SeqToSet(modelDef.elements) :
        e.isOwnerField /\ truthy(e.joinField) /\ instance[e.joinField] = last.user

\* C13: the target set of every policy evaluation contains anonymous,
\* contains administrator and user exactly when the caller is
\* authenticated, with or without an instance, and contains owner exactly
\* when the caller is authenticated and owns the supplied instance.
C13_PolicyTargetSet ==
    \A n \in 1..Len(last.evaluated) :
        LET targets == last.evaluated[n].targets
        IN  /\ "anonymous" \in targets
            /\ ("administrator" \in targets) <=> truthy(last.user)
            /\ ("user" \in targets) <=> truthy(last.user)
            /\ ("owner" \in targets) <=> (truthy(last.user) /\ OwnsInstance(SuppliedInstance(n)))

\* ---- C14

\* The last operation issued a save.
SaveIssued == \E n \in 1..Len(last.effects) : last.effects[n] = "save"

\* C14: an authorized update issues a save exactly when some key of its
\* input carries a value that differs from the instance's current one; an
\* update that changes nothing, or has no keys, issues none.
C14_NoopUpdateSkipped ==
    (last.op = "update" /\ last.outcome = Returned(True)) =>
        (SaveIssued <=> \E k \in KeysOf(last.input) : last.input[k] # last.loaded[k])

\* ---- C15

\* The declared state fields of the schema.
StateFields == {e.field : e \in {x \in SeqToSet(modelDef.elements) : x.isStateField}}

\* The state-field values the caller sent with the last operation are what
\* storage holds for the instance, and its other fields are as loaded.
StatePersisted ==
    \A k \in InstanceKeys :
        find(last.id)[k] = IF k \in StateFields /\ last.state[k] # Undef
                           THEN last.state[k] ELSE last.loaded[k]

\* C15: when the workflow-engine call that follows an instance save fails,
\* the operation ends in an error and what was saved stays: create leaves
\* the new instance stored with no process instance, destroy and
\* completeTask leave the state-field values they applied.
C15_NoRollback ==
    /\ (last.op = "create" /\ last.failing = "processDefinition.start") =>
          /\ last.outcome.kind = "throw"
          /\ Len(storage) = Len(last.before) + 1
          /\ ~isNull(find(last.id))
          /\ find(last.id) = last.object
          /\ engine = last.engineBefore
          /\ \A p \in engine.processInstances : p.businessKey # last.id
    /\ (last.op = "destroy" /\ last.failing \in {"processInstance.list", "processInstance.delete"}) =>
          /\ last.outcome.kind = "throw"
          /\ StatePersisted
          /\ engine = last.engineBefore
    /\ (last.op = "completeTask" /\ last.failing = "task.complete") =>
          /\ last.outcome.kind = "throw"
          /\ StatePersisted
          /\ engine = last.engineBefore

\* A destroy that stored the status it was sent and then failed to delete
\* the process instance.
C15_Witness ==
    /\ last.op = "destroy"
    /\ last.failing = "processInstance.delete"
    /\ last.state = DoneState
    /\ last.loaded["status"] = "draft"
    /\ SaveIssued
    /\ last.outcome = Thrown("Error")
    /\ find(last.id)["status"] = "done"
    /\ \E p \in engine.processInstances : p.businessKey = last.id

\* ---- C16

\* C16: an operation whose workflow-engine call fails in transport answers
\* with the coarse engine error it wraps the failure in; the transport
\* error itself never reaches the caller.
C16_EngineErrorWrapping ==
    last.failing # "none" =>
        /\ last.outcome = Thrown("Error")
        /\ last.outcome # Thrown("TransportError")

\* ---- C17

\* The pending tasks of the instance the last operation named.
PendingTasks == {t \in last.engineBefore.tasks : t.processInstanceBusinessKey = last.id}

\* C17: getTasks of an existing instance, the engine answering, returns
\* under an allowing task match exactly the pending tasks of the instance
\* whose definition key the match's allowedTasks, if any, contains; under
\* a denying match it throws AuthorizationError and returns no task.
C17_GetTasksExact ==
    (last.op = "getTasks" /\ ~isNull(last.loaded) /\ last.failing = "none") =>
        /\ (acl /\ ~MatchFor(AclTask).allow) =>
              /\ last.outcome = Thrown("AuthorizationError")
              /\ last.tasks = {}
        /\ (acl /\ MatchFor(AclTask).allow) =>
              /\ last.outcome = Returned("list")
              /\ last.tasks =
                    {t \in PendingTasks :
                        MatchFor(AclTask).allowedTasks # Absent
                            => t.taskDefinitionKey \in MatchFor(AclTask).allowedTasks}
        /\ ~acl => last.outcome = Returned("list") /\ last.tasks = PendingTasks

\* A getTasks that returns the one pending task of its instance because the
\* match lists its key, while another instance has a pending task too.
C17_Witness ==
    /\ last.op = "getTasks"
    /\ MatchFor(AclTask) = Match(TRUE, Absent, Absent, {"submit"})
    /\ last.outcome = Returned("list")
    /\ last.tasks = {Task(last.id, "submit")}
    /\ \E t \in last.engineBefore.tasks : t.processInstanceBusinessKey # last.id

\* ---- C18

\* The task match of the last completeTask carries an allowedTasks set that
\* leaves out the definition key of the task the caller named.
NamedTaskExcluded ==
    /\ last.op = "completeTask"
    /\ AskedFor(AclTask)
    /\ MatchFor(AclTask).allowedTasks # Absent
    /\ NamedTasks # {}
    /\ \A t \in NamedTasks : t.taskDefinitionKey \notin MatchFor(AclTask).allowedTasks

\* C18: a completeTask whose task match excludes the named task throws
\* AuthorizationError; the task is not completed and no state field is
\* saved.
C18_ExcludedTaskNotCompleted ==
    NamedTaskExcluded =>
        /\ last.outcome = Thrown("AuthorizationError")
        /\ \A n \in 1..Len(last.effects) : last.effects[n] \notin {"task.complete", "save"}
        /\ NamedTasks \subseteq engine.tasks
        /\ storage = last.before

\* An owner's completeTask with a new status, let through by the access
\* match and refused by a task match that lists another task only.
C18_Witness ==
    /\ NamedTaskExcluded
    /\ CallerIsOwner
    /\ MatchFor(AclAccess) = Match(TRUE, Absent, {"owner"}, Absent)
    /\ last.state = DoneState
    /\ last.effects = <<"task.list">>
    /\ last.outcome = Thrown("AuthorizationError")
    /\ find(last.id)["status"] = "draft"

\* ---- C19

\* A stored row satisfies every filter of the last list that names a
\* declared filterable field and carries a value.
SatisfiesFilters(row) ==
    \A e \in SeqToSet(modelDef.elements) :
        (e.listingFilterable /\ e.field # Undef /\ last.filter[e.field] \notin {Undef, Null})
            => row[e.field] = last.filter[e.field]

\* A stored row satisfies the owner constraint of the last list, which
\* applies when the access restrictions lack "all".
SatisfiesOwner(row) ==
    (acl /\ "all" \notin MatchFor(AclAccess).allowedRestrictions) => OwnsInstance(row)

\* C19: the rows list returns are exactly the stored rows that satisfy
\* every applied filter, falsy filter values included, and the owner
\* constraint; filter keys that are not declared filterable change nothing.
C19_ListFiltering ==
    (last.op = "list" /\ last.outcome = Returned("list")) =>
        RowIds = {storage[n]["id"] :
                     n \in {m \in 1..Len(storage) :
                              SatisfiesFilters(storage[m]) /\ SatisfiesOwner(storage[m])}}

\* ---- C20

\* C20: an id that had a cached instance before the last operation or
\* callback of the request still has that same cached object after it; no
\* later load or registration replaces the entry.
C20_CacheWriteOnce ==
    \A i \in Ids :
        last.cacheBefore[i] # 0 => context.lookupLoad[i] = last.cacheBefore[i]

\* ---- C21

\* C21: the identity service's find is called at most once for a request,
\* whatever it answers, and the operations of the request see one identity.
C21_IdentityResolvedOnce ==
    /\ context.identityFinds <= 1
    /\ (last.op \in {"get", "list", "create", "destroy", "getTasks"} /\ truthy(context.user))
          => last.user = IdentityFind(context.user)

\* ---- C22
\* Instances are never removed and ids never change: an operation leaves
\* every stored row in its place with its id (rows are only appended), and
\* update, destroy and completeTask hand to save the object with the id it
\* was loaded with, whatever id the update input or the state map carries.
C22_InstancesPersist ==
    /\ Len(storage) >= Len(last.before)
    /\ \A n \in 1..Len(last.before) : storage[n]["id"] = last.before[n]["id"]
    /\ \A n \in 1..Len(storage) : storage[n]["id"] = IdNames[n]
    /\ last.op \in {"update", "destroy", "completeTask"}
          => /\ last.object["id"] = last.loaded["id"]
             /\ SaveIssued => /\ find(last.id) = last.object
                              /\ Len(storage) = Len(last.before)

\* A destroy whose state map names another id changed and saved the instance.
C22_Witness ==
    /\ last.op = "destroy"
    /\ last.id = "i1"
    /\ last.state["id"] = "i2"
    /\ SaveIssued
    /\ Len(storage) = 2
    /\ last.outcome = Returned(True)

\* ---- C23

\* The last call was a list whose access match allows and carries no
\* allowedRestrictions.
ListUnderAbsentRestrictions ==
    /\ last.op = "list"
    /\ AskedFor(AclAccess)
    /\ MatchFor(AclAccess).allow
    /\ MatchFor(AclAccess).allowedRestrictions = Absent

\* C23: a list whose access match allows with allowedRestrictions absent
\* is served as unrestricted: it answers a list, whoever calls, and without
\* a filter the list holds every stored row, owned by the caller or not.
C23_ListAbsentRestrictions ==
    ListUnderAbsentRestrictions =>
        /\ last.outcome = Returned("list")
        /\ last.filter = NoMap => RowIds = {storage[n]["id"] : n \in 1..Len(storage)}

\* ---- C24

\* What get answers the caller of the last list for its n-th row and the
\* same fields, the policy answering get's access evaluation as it answered
\* the list's and get's read evaluation as it answered the row's.
GetOfRow(n) ==
    getRun(modelDef, acl, find(last.rows[n].props["id"]), last.user, last.topLevelFields,
           MatchFor(AclAccess),
           IF acl THEN last.evaluated[n + 1].match ELSE DenyMatch)

\* C24: list agrees with get row by row: get of a returned row's id, by the
\* same caller for the same fields, does not fail and returns the object
\* list returned for the row.
C24_ListAgreesWithGet ==
    (last.op = "list" /\ last.outcome = Returned("list")) =>
        \A n \in 1..Len(last.rows) :
            /\ GetOfRow(n).outcome = Returned("object")
            /\ GetOfRow(n).result = last.rows[n]

\* ---- C25

\* The write match of the last update allows, with restrictions that the
\* caller does not meet: a non-empty set without "all", and without
\* "owner" or the caller is no owner.
WriteRestrictionsUnmet ==
    /\ last.op = "update"
    /\ AskedFor(AclWrite)
    /\ MatchFor(AclWrite).allow
    /\ MatchFor(AclWrite).allowedRestrictions \notin {Absent, {}}
    /\ "all" \notin MatchFor(AclWrite).allowedRestrictions
    /\ ~("owner" \in MatchFor(AclWrite).allowedRestrictions /\ CallerIsOwner)

\* C25: an update whose write match allows under restrictions the caller
\* does not meet is denied with AuthorizationError and saves nothing.
C25_WriteRestrictionRule ==
    WriteRestrictionsUnmet =>
        /\ last.outcome.kind = "throw"
        /\ last.outcome.error = "AuthorizationError"
        /\ ~SaveIssued
        /\ storage = last.before

\* ---- C26

\* Some declared state field of the loaded instance differs from the value
\* the caller's state map gives it.
StateChangeAsked ==
    \E k \in StateFields : last.state[k] # Undef /\ last.state[k] # last.loaded[k]

\* C26: destroy and completeTask change only declared state fields: after
\* either, every field of the instance that is no state field is as it was
\* loaded, in the object handed to save and in storage, whatever keys the
\* state map names; a state field holds its loaded value or the value
\* sent; the other rows are untouched; and a save is issued only when a
\* state field's value changed.
C26_StateFieldFrame ==
    (last.op \in {"destroy", "completeTask"} /\ ~isNull(last.loaded)) =>
        /\ \A k \in InstanceKeys \ StateFields :
              /\ last.object[k] = last.loaded[k]
              /\ find(last.id)[k] = last.loaded[k]
        /\ \A k \in StateFields :
              find(last.id)[k] \in {last.loaded[k], last.state[k]}
        /\ \A n \in 1..Len(last.before) :
              last.before[n]["id"] # last.id => storage[n] = last.before[n]
        /\ SaveIssued => StateChangeAsked
        /\ ~SaveIssued => storage = last.before

\* A completeTask whose state map named a state field, another field and
\* an id changed the status alone and saved.
C26_Witness ==
    /\ last.op = "completeTask"
    /\ last.state = DoneState
    /\ last.loaded["title"] = "x"
    /\ last.loaded["status"] = "draft"
    /\ SaveIssued
    /\ find(last.id)["status"] = "done"
    /\ find(last.id)["title"] = "x"
    /\ last.outcome = Returned(True)

\* ---- C27

\* The process instances the engine held for the last operation's id under
\* the entity's process-definition key, before the operation.
ListedBefore ==
    {p \in last.engineBefore.processInstances :
        p.businessKey = last.id /\ p.definitionKey = ProcessKey}

\* The process instances the last operation deleted.
DeletedProcesses == last.engineBefore.processInstances \ engine.processInstances

\* C27: destroy(id) deletes no process instance but one whose business key
\* is id and starts none; when it answers true no process instance with
\* business key id is left; when it answers false the engine listed none
\* for the id, and a destroy that is answered while the engine lists none
\* is answered false.
C27_DestroyTeardown ==
    last.op = "destroy" =>
        /\ \A p \in DeletedProcesses : p.businessKey = last.id
        /\ engine.processInstances \subseteq last.engineBefore.processInstances
        /\ last.outcome = Returned(True) =>
              /\ DeletedProcesses # {}
              /\ \A p \in engine.processInstances : p.businessKey # last.id
        /\ last.outcome = Returned(False) => ListedBefore = {}
        /\ (ListedBefore = {} /\ last.outcome.kind = "return") => last.outcome = Returned(False)

\* A destroy answered true while the engine held the process instances of
\* two instances: the other one's is left.
C27_Witness ==
    /\ last.op = "destroy"
    /\ last.outcome = Returned(True)
    /\ Cardinality(last.engineBefore.processInstances) = 2
    /\ Cardinality(engine.processInstances) = 1
    /\ \A p \in engine.processInstances : p.businessKey # last.id

\* ---- C28

\* The positions of an engine or storage call among the last operation's
\* calls.
CallsOf(name) == {n \in 1..Len(last.effects) : last.effects[n] = name}

\* C28: completeTask issues the task completion at most once and after
\* the instance save, if there is one; the variables it sends are exactly
\* the declared state fields the state map gives a value, every such value
\* being a string, a number, a boolean or null.
C28_CompletionPayload ==
    last.op = "completeTask" =>
        /\ Cardinality(CallsOf("task.complete")) <= 1
        /\ \A m \in CallsOf("save"), n \in CallsOf("task.complete") : m < n
        /\ CallsOf("task.complete") # {} =>
              \A k \in InstanceKeys :
                  last.variables[k] = IF k \in StateFields THEN last.state[k] ELSE Undef

\* ---- C29

\* The process instances the last operation started.
StartedProcesses == engine.processInstances \ last.engineBefore.processInstances

\* C29: a create that is allowed saves the instance and then calls the
\* process start once; when the call succeeds exactly one process instance
\* is started, its business key the id of the instance just persisted and
\* its key the entity's process-definition key. No other operation starts
\* a process, and no id is the business key of two process instances.
C29_OneProcessPerCreate ==
    /\ (last.op = "create" /\ last.outcome.error # "AuthorizationError") =>
          /\ last.effects = <<"save", "processDefinition.start">>
          /\ Len(storage) = Len(last.before) + 1
          /\ storage[Len(storage)]["id"] = last.id
          /\ \A n \in 1..Len(last.before) : last.before[n]["id"] # last.id
          /\ last.outcome = Returned("object") =>
                StartedProcesses =
                    {[id |-> last.id, businessKey |-> last.id, definitionKey |-> ProcessKey]}
          /\ last.outcome # Returned("object") => StartedProcesses = {}
    /\ (last.op # "create" \/ last.outcome.error = "AuthorizationError") =>
          /\ CallsOf("processDefinition.start") = {}
          /\ ~Idle => StartedProcesses = {}
    /\ \A p, q \in engine.processInstances : p.businessKey = q.businessKey => p = q

\* A create stored a second instance and started its process.
C29_Witness ==
    /\ last.op = "create"
    /\ last.outcome = Returned("object")
    /\ last.id = "i2"
    /\ find("i2") = last.object
    /\ \E p \in engine.processInstances : p.businessKey = "i2" /\ p.definitionKey = ProcessKey
    /\ \E p \in engine.processInstances : p.businessKey = "i1"

\* ---- C30

\* The join fields of the schema's owner fields.
OwnerJoinFields ==
    {e.joinField : e \in {x \in SeqToSet(modelDef.elements) :
                             x.isOwnerField /\ truthy(x.joinField)}}

\* C30: the creator becomes the owner and is served as the owner. A create
\* by an authenticated identity persists the instance with every owner join
\* field set to the identity's id; no operation changes an owner join field
\* of a stored instance; and an authenticated caller whose id is in an owner
\* join field of an instance has owner among the targets of every policy
\* evaluation on it, passes an access match restricted to owner on to the
\* next policy evaluation, and finds the instance in every list that is
\* answered, if the instance satisfies the filter.
C30_CreatorBecomesOwner ==
    /\ (last.op = "create" /\ SaveIssued /\ truthy(last.user)) =>
          \A f \in OwnerJoinFields : find(last.id)[f] = last.user
    /\ \A n \in 1..Len(last.before), f \in OwnerJoinFields :
          storage[n][f] = last.before[n][f]
    /\ truthy(last.user) =>
          \A n \in 1..Len(last.evaluated) :
              OwnsInstance(SuppliedInstance(n)) => "owner" \in last.evaluated[n].targets
    /\ (/\ last.op \in GatedOps
        /\ truthy(last.user)
        /\ OwnsInstance(last.loaded)
        /\ AskedFor(AclAccess)
        /\ MatchFor(AclAccess).allow
        /\ "owner" \in MatchFor(AclAccess).allowedRestrictions) =>
          Len(last.evaluated) = 2
    /\ (last.op = "list" /\ last.outcome = Returned("list") /\ truthy(last.user)) =>
          \A n \in 1..Len(storage) :
              (OwnsInstance(storage[n]) /\ SatisfiesFilters(storage[n]))
                  => storage[n]["id"] \in RowIds

\* An identity that created an instance earlier gets it under an access
\* match restricted to owner.
C30_Witness ==
    /\ last.op = "get"
    /\ last.id = "i2"
    /\ last.user = "ann"
    /\ OwnerJoinFields # {}
    /\ \A f \in OwnerJoinFields : last.loaded[f] = "ann"
    /\ MatchFor(AclAccess) = Match(TRUE, Absent, {"owner"}, Absent)
    /\ "owner" \in last.evaluated[1].targets
    /\ last.outcome = Returned("object")

\* ---- C31

\* The last call resolved a relation that was not eager-loaded on a parent
\* whose instance get or list had registered in the request's cache.
RelationOfCachedParent ==
    /\ last.op = "resolveRelation"
    /\ ~last.eager
    /\ truthy(last.id)
    /\ last.cacheBefore[last.id] # 0

\* C31: the relation of a parent that get or list registered in the
\* request's cache is resolved on the cached instance, with no further
\* storage find for the id.
C31_NestedResolutionUsesCache ==
    RelationOfCachedParent =>
        /\ CallsOf("find") = {}
        /\ last.loaded = context.instanceLookup[last.id]

\* ---- C32

\* The last operation saved the instance of an id that the request's cache
\* held before it, in a request whose lookups consult the cache.
SavedWhileCached ==
    /\ last.op \in {"update", "destroy", "completeTask"}
    /\ SaveIssued
    /\ last.cacheBefore[last.id] # 0
    /\ usesLookup(TRUE, context)

\* The last call was a lookup answered from the request's cache.
AnsweredFromCache ==
    /\ last.op = "resolveInstanceUsingContext"
    /\ last.outcome = Returned("object")
    /\ last.effects = <<>>

\* C32: the request's cache never serves stale state: once update, destroy
\* or completeTask has saved an instance the cache holds, the cached
\* instance, which is what a following lookup of the id answers, has the
\* persisted field values; and a lookup answered from the cache answers
\* the persisted values.
C32_CacheNeverStale ==
    /\ SavedWhileCached => context.instanceLookup[last.id] = find(last.id)
    /\ AnsweredFromCache => last.loaded = find(last.id)

\* ---- C33

\* The ids whose cache entry the last operation wrote.
Registered == {i \in Ids : context.lookupLoad[i] # last.cacheBefore[i]}

\* The caller of the last operation passes the access gate for a stored
\* instance under the access match the operation received: the match
\* allows, and its restrictions are absent or empty, contain "all", or
\* contain "owner" while the caller owns the instance.
PassesAccessGate(instance) ==
    \/ ~acl
    \/ /\ MatchFor(AclAccess).allow
       /\ \/ MatchFor(AclAccess).allowedRestrictions \in {Absent, {}}
          \/ "all" \in MatchFor(AclAccess).allowedRestrictions
          \/ "owner" \in MatchFor(AclAccess).allowedRestrictions /\ OwnsInstance(instance)

\* C33: the request's cache holds only instances the caller was allowed to
\* access: a get that ends in AuthorizationError registers nothing, and
\* every instance get or list registers passes the access gate, the
\* restriction rule included.
C33_CacheOnlyAccessible ==
    /\ (last.op = "get" /\ last.outcome = Thrown("AuthorizationError")) => Registered = {}
    /\ last.op \in {"get", "list"} => \A i \in Registered : PassesAccessGate(find(i))

====
